---- MODULE Spec2Model ----
(***************************************************************************)
(* Model of the quotation negotiation and order conversion workflow of the *)
(* truck marketplace backend (quotations/, orders/, payments/), and of the *)
(* stop matching of the route search (trucks/).                            *)
(*                                                                         *)
(* The database tables are the state: QuotationRequest, Quotation,         *)
(* QuotationNegotiation, Order, OrderStatusHistory.  Every service         *)
(* function and every view handler is one action.  Amounts are Decimal     *)
(* values in the code; here they are integers and every percentage test is *)
(* cross-multiplied, which is exact for Decimal arithmetic.  Time is       *)
(* counted in whole hours since midnight UTC of the first day.             *)
(***************************************************************************)
EXTENDS Integers, Sequences, FiniteSets, TLC

VARIABLES
    now,            \* timezone.now(), in hours
    requests,       \* QuotationRequest table, id = index
    quotations,     \* Quotation table, id = index
    negotiations,   \* QuotationNegotiation rows of each quotation, by created_at
    original,       \* total_amount each quotation was created with
    orders,         \* Order table, id = index
    history,        \* OrderStatusHistory table
    drivers,        \* Driver.is_available of each driver
    payments,       \* Payment table, id = index
    inflight,       \* negotiation requests that are between validation and insert
    matching,       \* a route search: its arguments and the answer of the stop matching
    response        \* what the last call was and how it ended

vars == <<now, requests, quotations, negotiations, original, orders, history,
          drivers, payments, inflight, matching, response>>

----------------------------------------------------------------------------
(* Bounds of the model *)

\* negotiation records per quotation, hours the clock advances, Payment rows
MaxNegotiations == 2
MaxTime == 2
MaxPayments == 1

----------------------------------------------------------------------------
(* Users and input domains *)

Customers == {"c1", "c2"}
Vendors == {"v1", "v2"}
Admins == {"a1"}
Users == Customers \cup Vendors

role(u) == IF u \in Customers THEN "customer"
           ELSE IF u \in Vendors THEN "vendor" ELSE "admin"

Routes == {"r1"}
TotalAmounts == {100}
\* 0 stands for "no customer_proposed_amount" where that is optional
Proposals == {47, 55, 90}
ValidityChoices == {1}

OK == "ok"

----------------------------------------------------------------------------
(* quotations/enums.py *)

PENDING == "pending"
SENT == "sent"
NEGOTIATING == "negotiating"
ACCEPTED == "accepted"
REJECTED == "rejected"
EXPIRED == "expired"

QuotationStatus == {PENDING, SENT, NEGOTIATING, ACCEPTED, REJECTED, EXPIRED}
FINAL_STATUSES == {ACCEPTED, REJECTED, EXPIRED}

CANNOT_ACCEPT_OWN_NEGOTIATION == "You cannot accept your own negotiation offer"
CONSECUTIVE_NEGOTIATION == "Cannot negotiate consecutively"
QUOTATION_NOT_NEGOTIABLE == "AttributeError: QUOTATION_NOT_NEGOTIABLE"
QUOTATION_EXPIRED == "AttributeError: QUOTATION_EXPIRED"

----------------------------------------------------------------------------
(* quotations/validators.py *)

max_reduction_percent == 15

CANNOT_REDUCE == "Cannot reduce more than 15% per negotiation"
CANNOT_INCREASE == "Cannot increase more than 15% per negotiation"
BELOW_FLOOR == "Final amount cannot be less than 50% of original"

QIds == 1..Len(quotations)

Last(s) == s[Len(s)]

\* ist_hour = (now.hour + 5) % 24
ist_hour(t) == ((t % 24) + 5) % 24

validate_negotiation_sequence(q, user_role) ==
    LET negs == negotiations[q] IN
    IF Len(negs) >= 10
    THEN "Maximum negotiation rounds (5) exceeded"
    ELSE IF Len(negs) > 0 /\ Last(negs).initiated_by = user_role
    THEN CONSECUTIVE_NEGOTIATION
    ELSE IF ist_hour(now) < 9 \/ ist_hour(now) > 21
    THEN "Negotiations are only allowed during business hours"
    ELSE IF user_role = "customer" /\ Len(negs) = 0
            /\ 2 * (now - quotations[q].created_at) < 1
    THEN "Please wait at least 30 minutes before starting negotiations"
    ELSE OK

\* The amount validator with the per-round band left out.
validate_amount_floor_only(original_amount, negs, proposed_amount, user_role) ==
    IF proposed_amount * 2 < original_amount
    THEN BELOW_FLOOR
    ELSE OK

\* The amount validator with the 50% floor left out.
validate_amount_band_only(original_amount, negs, proposed_amount, user_role) ==
    IF Len(negs) > 0 /\ proposed_amount * 100 < Last(negs).proposed_amount * (100 - max_reduction_percent)
    THEN CANNOT_REDUCE
    ELSE IF Len(negs) > 0 /\ proposed_amount * 100 > Last(negs).proposed_amount * (100 + max_reduction_percent)
            /\ user_role = "customer"
    THEN CANNOT_INCREASE
    ELSE OK

\* original_amount is quotation.total_amount, negs the quotation's
\* negotiations ordered by created_at.
validate_negotiation_amount_advanced(original_amount, negs, proposed_amount, user_role) ==
    IF Len(negs) > 0 /\ proposed_amount * 100 < Last(negs).proposed_amount * (100 - max_reduction_percent)
    THEN CANNOT_REDUCE
    ELSE IF Len(negs) > 0 /\ proposed_amount * 100 > Last(negs).proposed_amount * (100 + max_reduction_percent)
            /\ user_role = "customer"
    THEN CANNOT_INCREASE
    ELSE IF proposed_amount * 2 < original_amount
    THEN BELOW_FLOOR
    ELSE OK

allowed_transitions(from_status) ==
    IF from_status \in {PENDING, SENT}
    THEN {NEGOTIATING, ACCEPTED, REJECTED, EXPIRED}
    ELSE IF from_status = NEGOTIATING
    THEN {ACCEPTED, REJECTED, EXPIRED}
    ELSE {}

\* The transition test without the restriction of acceptance to customers.
can_transition_status_any_role(from_status, to_status, user_role) ==
    IF to_status \notin allowed_transitions(from_status)
    THEN "Cannot transition"
    ELSE OK

can_transition_status(from_status, to_status, user_role) ==
    IF to_status \notin allowed_transitions(from_status)
    THEN "Cannot transition"
    ELSE IF to_status = ACCEPTED /\ user_role # "customer"
    THEN "Only customers can accept quotations"
    ELSE OK

\* The expiry test without the comparison of the clock with the validity.
validate_quotation_expiry_by_status(q) ==
    quotations[q].status \in {ACCEPTED, REJECTED, EXPIRED}

validate_quotation_expiry(q) ==
    IF quotations[q].status \in {ACCEPTED, REJECTED, EXPIRED}
    THEN TRUE
    ELSE now > quotations[q].created_at + quotations[q].validity_hours

----------------------------------------------------------------------------
(* Responses *)

\* The response of the last call: the operation, the role of the caller and
\* the outcome (OK or the error it ended with).
Resp(op, user, outcome) ==
    [op |-> op,
     role |-> IF user \in Users \cup Admins THEN role(user) ELSE user,
     outcome |-> outcome]

NoResponse == Resp("none", "none", OK)

customer_of(qs, q) == requests[qs[q].quotation_request].customer

----------------------------------------------------------------------------
(* quotations/services.py: QuotationService *)

MatchingRequests(customer, route, weight) ==
    {r \in DOMAIN requests : /\ requests[r].customer = customer
                             /\ requests[r].route = route
                             /\ requests[r].weight = weight}

\* unique_together = [customer, origin_pincode, destination_pincode, pickup_date, drop_date]
RequestKeyTaken(customer, route) ==
    \E r \in DOMAIN requests : requests[r].customer = customer /\ requests[r].route = route

\* unique_together = [quotation_request, vendor]
QuotationKeyTaken(r, vendor) ==
    \E q \in QIds : quotations[q].quotation_request = r /\ quotations[q].vendor = vendor

ActiveRequests(customer) ==
    Cardinality({r \in DOMAIN requests : requests[r].customer = customer})

\* create_initial_negotiation runs the amount validator on the quotation just
\* created, which has no negotiation yet.
initial_amount_check(total_amount, customer_proposed_amount) ==
    validate_negotiation_amount_advanced(total_amount, <<>>,
                                         customer_proposed_amount, "customer")

create_quotation_request_and_quotation(customer, vendor, route, weight, total_amount, proposed, validity_hours) ==
    /\ LET op == "create_quotation"
           found == MatchingRequests(customer, route, weight)
           r == IF found # {} THEN CHOOSE x \in found : TRUE ELSE Len(requests) + 1
           reqs == IF found # {} THEN requests
                   ELSE Append(requests, [customer |-> customer, route |-> route,
                                          weight |-> weight])
           quotation == [quotation_request |-> r, vendor |-> vendor,
                         total_amount |-> total_amount, status |-> PENDING,
                         created_at |-> now, validity_hours |-> validity_hours]
           q == Len(quotations) + 1
       IN
       IF ActiveRequests(customer) >= 5
       THEN /\ response' = Resp(op, customer, "maximum limit of 5 active quotation requests")
            /\ UNCHANGED <<matching, inflight, drivers, payments, now, requests, quotations, negotiations, original, orders, history>>
       ELSE IF found = {} /\ RequestKeyTaken(customer, route)
       THEN \* get_or_create: INSERT violates the unique key of QuotationRequest
            /\ response' = Resp(op, customer, "IntegrityError: quotation_request")
            /\ UNCHANGED <<matching, inflight, drivers, payments, now, requests, quotations, negotiations, original, orders, history>>
       ELSE IF QuotationKeyTaken(r, vendor)
       THEN /\ requests' = reqs
            /\ response' = Resp(op, customer, "IntegrityError: quotation")
            /\ UNCHANGED <<matching, inflight, drivers, payments, now, quotations, negotiations, original, orders, history>>
       ELSE \* Quotation.objects.create, then create_initial_negotiation
            /\ requests' = reqs
            /\ original' = Append(original, total_amount)
            /\ IF proposed # 0
               THEN IF initial_amount_check(total_amount, proposed) # OK
                    THEN /\ quotations' = Append(quotations, quotation)
                         /\ negotiations' = Append(negotiations, <<>>)
                         /\ response' = Resp(op, customer,
                                             initial_amount_check(total_amount, proposed))
                    ELSE /\ quotations' = Append(quotations,
                                                 [quotation EXCEPT !.status = NEGOTIATING])
                         /\ negotiations' = Append(negotiations,
                                <<[initiated_by |-> "customer", proposed_amount |-> proposed]>>)
                         /\ response' = Resp(op, customer, OK)
               ELSE /\ quotations' = Append(quotations, quotation)
                    /\ negotiations' = Append(negotiations,
                           <<[initiated_by |-> "customer", proposed_amount |-> total_amount]>>)
                    /\ response' = Resp(op, customer, OK)
            /\ UNCHANGED <<matching, inflight, drivers, payments, now, orders, history>>

----------------------------------------------------------------------------
(* quotations/services.py: NegotiationService *)

can_negotiate(q, user_role) ==
    IF quotations[q].status \notin {PENDING, SENT, NEGOTIATING}
    THEN QUOTATION_NOT_NEGOTIABLE
    ELSE IF validate_quotation_expiry(q)
    THEN QUOTATION_EXPIRED
    ELSE validate_negotiation_sequence(q, user_role)

create_negotiation_outcome(q, user_role, proposed_amount) ==
    IF can_negotiate(q, user_role) # OK
    THEN can_negotiate(q, user_role)
    ELSE IF validate_negotiation_amount_advanced(quotations[q].total_amount,
                negotiations[q], proposed_amount, user_role) # OK
    THEN validate_negotiation_amount_advanced(quotations[q].total_amount,
                negotiations[q], proposed_amount, user_role)
    ELSE IF user_role \notin {"customer", "vendor"}
    THEN "Invalid user role for negotiation"
    ELSE OK

Negotiation(initiated_by, proposed_amount) ==
    [initiated_by |-> initiated_by, proposed_amount |-> proposed_amount]

create_negotiation(q, user_role, proposed_amount) ==
    /\ response' = Resp("create_negotiation", user_role,
                        create_negotiation_outcome(q, user_role, proposed_amount))
    /\ IF create_negotiation_outcome(q, user_role, proposed_amount) = OK
       THEN /\ negotiations' = [negotiations EXCEPT
                                  ![q] = Append(@, Negotiation(user_role, proposed_amount))]
            /\ quotations' = [quotations EXCEPT ![q].status = NEGOTIATING]
       ELSE UNCHANGED <<quotations, negotiations>>
    /\ UNCHANGED <<matching, inflight, drivers, payments, now, requests, original, orders, history>>

\* create_negotiation as two steps of a request worker: the validation reads
\* (can_negotiate and the amount check), and then the insert with the status
\* update.  Nothing in the function locks the quotation or its negotiations
\* between the two.
Workers == {"w1", "w2"}

create_negotiation_validate(w, q, user_role, proposed_amount) ==
    /\ \A req \in inflight : req.worker # w
    /\ IF create_negotiation_outcome(q, user_role, proposed_amount) = OK
       THEN /\ inflight' = inflight \cup {[worker |-> w, quotation |-> q,
                                            initiated_by |-> user_role,
                                            proposed_amount |-> proposed_amount]}
            /\ UNCHANGED response
       ELSE /\ response' = Resp("create_negotiation", user_role,
                                create_negotiation_outcome(q, user_role, proposed_amount))
            /\ UNCHANGED inflight
    /\ UNCHANGED <<matching, drivers, payments, now, requests, quotations, negotiations, original, orders, history>>

create_negotiation_insert(w) ==
    \E req \in inflight :
        /\ req.worker = w
        /\ negotiations' = [negotiations EXCEPT
                              ![req.quotation] = Append(@, Negotiation(req.initiated_by,
                                                                       req.proposed_amount))]
        /\ quotations' = [quotations EXCEPT ![req.quotation].status = NEGOTIATING]
        /\ inflight' = inflight \ {req}
        /\ response' = Resp("create_negotiation", req.initiated_by, OK)
        /\ UNCHANGED <<matching, drivers, payments, now, requests, original, orders, history>>

----------------------------------------------------------------------------
(* quotations/api/views.py: NegotiationCreateView *)

NOT_YOUR_QUOTATION == "You can only negotiate quotations for your own requests"
NOT_YOUR_VENDOR_QUOTATION == "You can only negotiate your own quotations"

\* The view checks can_negotiate, calls the service, which records a
\* negotiation, and then records a negotiation itself.
NegotiationCreateView_post(user, q, proposed_amount) ==
    /\ role(user) \in {"customer", "vendor"}
    /\ LET op == "NegotiationCreateView"
           initiated_by == role(user)
           n == Negotiation(initiated_by, proposed_amount)
           fail(msg) == /\ response' = Resp(op, user, msg)
                        /\ UNCHANGED <<quotations, negotiations>>
       IN
       IF role(user) = "customer" /\ customer_of(quotations, q) # user
       THEN fail(NOT_YOUR_QUOTATION)
       ELSE IF role(user) = "vendor" /\ quotations[q].vendor # user
       THEN fail(NOT_YOUR_VENDOR_QUOTATION)
       ELSE IF create_negotiation_outcome(q, initiated_by, proposed_amount) # OK
       THEN fail(create_negotiation_outcome(q, initiated_by, proposed_amount))
       ELSE /\ negotiations' = [negotiations EXCEPT ![q] = Append(Append(@, n), n)]
            /\ quotations' = [quotations EXCEPT ![q].status = NEGOTIATING]
            /\ response' = Resp(op, user, OK)
    /\ UNCHANGED <<matching, inflight, drivers, payments, now, requests, original, orders, history>>

----------------------------------------------------------------------------
(* quotations/services.py: QuotationStatusService *)

update_status(q, new_status, user_role) ==
    /\ response' = Resp("update_status", user_role,
                        can_transition_status(quotations[q].status, new_status, user_role))
    /\ IF can_transition_status(quotations[q].status, new_status, user_role) = OK
       THEN quotations' = [quotations EXCEPT ![q].status = new_status]
       ELSE UNCHANGED quotations
    /\ UNCHANGED <<matching, inflight, drivers, payments, now, requests, negotiations, original, orders, history>>

ShouldExpire(q) ==
    /\ quotations[q].status \in {PENDING, SENT, NEGOTIATING}
    /\ quotations[q].created_at < now
    /\ now > quotations[q].created_at + quotations[q].validity_hours

expire_quotations ==
    /\ quotations' = [q \in QIds |->
                        IF ShouldExpire(q)
                        THEN [quotations[q] EXCEPT !.status = EXPIRED]
                        ELSE quotations[q]]
    /\ response' = Resp("expire_quotations", "system", OK)
    /\ UNCHANGED <<matching, inflight, drivers, payments, now, requests, negotiations, original, orders, history>>

----------------------------------------------------------------------------
(* quotations/api/views.py: QuotationRejectView, QuotationAcceptView *)

QuotationRejectView_post(user, q) ==
    /\ role(user) = "customer"
    /\ IF customer_of(quotations, q) = user /\ quotations[q].status \in {SENT, NEGOTIATING}
       THEN /\ quotations' = [quotations EXCEPT ![q].status = REJECTED]
            /\ response' = Resp("QuotationRejectView", user, OK)
       ELSE /\ response' = Resp("QuotationRejectView", user,
                                "Quotation not found or cannot be rejected")
            /\ UNCHANGED quotations
    /\ UNCHANGED <<matching, inflight, drivers, payments, now, requests, negotiations, original, orders, history>>

\* QuotationStatusService has no accept_quotation: the call raises.
QuotationAcceptView_post(user, q) ==
    /\ role(user) \in {"customer", "vendor"}
    /\ LET mine == IF role(user) = "customer"
                   THEN customer_of(quotations, q) = user
                   ELSE quotations[q].vendor = user
       IN
       response' = Resp("QuotationAcceptView", user,
                        IF mine /\ quotations[q].status \in {SENT, NEGOTIATING}
                        THEN "AttributeError: accept_quotation"
                        ELSE "Quotation.DoesNotExist")
    /\ UNCHANGED <<matching, inflight, drivers, payments, now, requests, quotations, negotiations, original, orders, history>>

----------------------------------------------------------------------------
(* orders/services.py: OrderCreationService *)

OTPs == {"123456"}
Drivers == {"d1"}
NoDriver == "none"
NoTruck == "none"

ORDER_EXISTS == "Order already exists for this quotation"
NOT_OWN_QUOTATION == "You can only create orders for your own quotations"
HAS_EXPIRED == "Quotation has expired"

\* hasattr(quotation, 'order'): the reverse side of Order.quotation
has_order(ords, q) == \E o \in DOMAIN ords : ords[o].quotation = q

\* The validation with the "order already exists" test left out.
_validate_order_creation_no_exists(qs, ords, q, user) ==
    IF ~(customer_of(qs, q) = user \/ qs[q].vendor = user)
    THEN NOT_OWN_QUOTATION
    ELSE IF qs[q].status \notin {ACCEPTED, NEGOTIATING}
    THEN "Cannot create order from quotation with status"
    ELSE IF now > qs[q].created_at + qs[q].validity_hours
    THEN HAS_EXPIRED
    ELSE OK

_validate_order_creation(qs, ords, q, user) ==
    IF ~(customer_of(qs, q) = user \/ qs[q].vendor = user)
    THEN NOT_OWN_QUOTATION
    ELSE IF qs[q].status \notin {ACCEPTED, NEGOTIATING}
    THEN "Cannot create order from quotation with status"
    ELSE IF has_order(ords, q)
    THEN ORDER_EXISTS
    ELSE IF now > qs[q].created_at + qs[q].validity_hours
    THEN HAS_EXPIRED
    ELSE OK

\* Order.quotation is a OneToOneField: the table refuses a second row for
\* the same quotation.
OrderInsert(ords, order) ==
    IF \E o \in DOMAIN ords : ords[o].quotation = order.quotation
    THEN ords
    ELSE Append(ords, order)

OrderInsertError(ords, order) ==
    IF \E o \in DOMAIN ords : ords[o].quotation = order.quotation
    THEN "IntegrityError: order.quotation"
    ELSE OK

NewOrder(qs, q, truck, delivery_otp) ==
    [quotation |-> q, customer |-> customer_of(qs, q), vendor |-> qs[q].vendor,
     truck |-> truck, driver |-> NoDriver, total_amount |-> qs[q].total_amount,
     status |-> "created", delivery_otp |-> delivery_otp, is_otp_verified |-> FALSE]

StatusEntry(order, previous_status, new_status) ==
    [order |-> order, previous_status |-> previous_status, new_status |-> new_status]

\* The tables a transaction works on, with the outcome of the call.
Tables(qs, ords, hist, outcome) ==
    [quotations |-> qs, orders |-> ords, history |-> hist, outcome |-> outcome]

\* A block without a transaction: its writes stay when it raises.
no_transaction(before, after) == after

\* @transaction.atomic: an exception leaving the block undoes its writes.
transaction_atomic(before, after) ==
    IF after.outcome = OK
    THEN after
    ELSE [before EXCEPT !.outcome = after.outcome]

create_order_from_quotation_body(db, q, user, delivery_otp) ==
    LET order == NewOrder(db.quotations, q, NoTruck, delivery_otp)
        v == _validate_order_creation(db.quotations, db.orders, q, user)
    IN
    IF v # OK
    THEN [db EXCEPT !.outcome = v]
    ELSE IF OrderInsertError(db.orders, order) # OK
    THEN [db EXCEPT !.outcome = OrderInsertError(db.orders, order)]
    ELSE Tables(db.quotations,
                OrderInsert(db.orders, order),
                Append(db.history, StatusEntry(Len(db.orders) + 1, "", "created")),
                OK)

create_order_from_quotation_db(db, q, user, delivery_otp) ==
    transaction_atomic(db, create_order_from_quotation_body(db, q, user, delivery_otp))

\* The conversion that marks the quotation accepted and keeps its amount.
create_order_from_negotiation_keeping_amount(db, q, i, user, delivery_otp) ==
    LET updated == [db EXCEPT !.quotations[q].status = ACCEPTED]
    IN create_order_from_quotation_db(updated, q, user, delivery_otp)

\* negotiation i of quotation q
create_order_from_negotiation_body(db, q, i, user, delivery_otp) ==
    LET updated == [db EXCEPT
                      !.quotations[q].total_amount = negotiations[q][i].proposed_amount,
                      !.quotations[q].status = ACCEPTED]
    IN create_order_from_quotation_db(updated, q, user, delivery_otp)

create_order_from_negotiation_db(db, q, i, user, delivery_otp) ==
    transaction_atomic(db, create_order_from_negotiation_body(db, q, i, user, delivery_otp))

CurrentTables == Tables(quotations, orders, history, OK)

Commit(db) ==
    /\ quotations' = db.quotations
    /\ orders' = db.orders
    /\ history' = db.history

create_order_from_quotation(q, user) ==
    \E delivery_otp \in OTPs :
        LET db == create_order_from_quotation_db(CurrentTables, q, user, delivery_otp) IN
        /\ Commit(db)
        /\ response' = Resp("create_order_from_quotation", user, db.outcome)
        /\ UNCHANGED <<matching, inflight, drivers, payments, now, requests, negotiations, original>>

create_order_from_negotiation(q, i, user) ==
    \E delivery_otp \in OTPs :
        LET db == create_order_from_negotiation_db(CurrentTables, q, i, user, delivery_otp) IN
        /\ Commit(db)
        /\ response' = Resp("create_order_from_negotiation", user, db.outcome)
        /\ UNCHANGED <<matching, inflight, drivers, payments, now, requests, negotiations, original>>

----------------------------------------------------------------------------
(* quotations/services.py: QuotationStatusService.accept_negotiation *)

accept_negotiation_db(db, q, i, user, delivery_otp) ==
    IF ~(customer_of(db.quotations, q) = user \/ db.quotations[q].vendor = user)
    THEN [db EXCEPT !.outcome = "You can only accept negotiations for your own quotations"]
    ELSE LET created == create_order_from_negotiation_db(db, q, i, user, delivery_otp) IN
         IF created.outcome # OK
         THEN created
         ELSE [created EXCEPT !.quotations[q].status = ACCEPTED]

accept_negotiation(q, i, user) ==
    \E delivery_otp \in OTPs :
        LET db == accept_negotiation_db(CurrentTables, q, i, user, delivery_otp) IN
        /\ Commit(db)
        /\ response' = Resp("accept_negotiation", user, db.outcome)
        /\ UNCHANGED <<matching, inflight, drivers, payments, now, requests, negotiations, original>>

----------------------------------------------------------------------------
(* quotations/api/views.py: AcceptNegotiationView *)

CANNOT_NEGOTIATE_STATUS == "Cannot negotiate quotation with status"
KEY_ERROR == "Failed to accept negotiation: 'original_amount'"

\* A view that lets everybody accept every negotiation.
never_own_negotiation(n, user) == FALSE

\* The self-acceptance test of the view.
is_own_negotiation(n, user) ==
    \/ role(user) = "customer" /\ n.initiated_by = "customer"
    \/ role(user) = "vendor" /\ n.initiated_by = "vendor"

\* After a successful accept_negotiation the view reads
\* acceptance_result['original_amount'], which the service does not return:
\* the KeyError is caught and reported, the writes are already committed.
AcceptNegotiationView_db(db, q, i, user, delivery_otp) ==
    LET accepted == accept_negotiation_db(db, q, i, user, delivery_otp) IN
    IF role(user) = "customer" /\ user # customer_of(db.quotations, q)
    THEN [db EXCEPT !.outcome = "You can only accept negotiations for your own quotation requests"]
    ELSE IF role(user) = "vendor" /\ user # db.quotations[q].vendor
    THEN [db EXCEPT !.outcome = "You can only accept negotiations for your own quotations"]
    ELSE IF is_own_negotiation(negotiations[q][i], user)
    THEN [db EXCEPT !.outcome = CANNOT_ACCEPT_OWN_NEGOTIATION]
    ELSE IF db.quotations[q].status \notin {SENT, NEGOTIATING}
    THEN [db EXCEPT !.outcome = CANNOT_NEGOTIATE_STATUS]
    ELSE IF accepted.outcome = OK
    THEN [accepted EXCEPT !.outcome = KEY_ERROR]
    ELSE accepted

AcceptNegotiationView_post(user, q, i) ==
    /\ role(user) \in {"customer", "vendor"}
    /\ \E delivery_otp \in OTPs :
        LET db == AcceptNegotiationView_db(CurrentTables, q, i, user, delivery_otp) IN
        /\ Commit(db)
        /\ response' = Resp("AcceptNegotiationView", user, db.outcome)
        /\ UNCHANGED <<matching, inflight, drivers, payments, now, requests, negotiations, original>>

----------------------------------------------------------------------------
(* orders/api/serializers.py: OrderCreateSerializer (OrderCreateView) *)

\* create() reads quotation.quotation_request.truck; QuotationRequest has no
\* such field, so the attribute lookup raises before Order.objects.create.
OrderCreateSerializer_db(db, q, user, delivery_otp) ==
    IF db.quotations[q].status # ACCEPTED
    THEN [db EXCEPT !.outcome = "Quotation not found or not accepted"]
    ELSE IF customer_of(db.quotations, q) # user
    THEN [db EXCEPT !.outcome = "You are not authorized to create order for this quotation"]
    ELSE IF has_order(db.orders, q)
    THEN [db EXCEPT !.outcome = ORDER_EXISTS]
    ELSE [db EXCEPT !.outcome = "AttributeError: 'QuotationRequest' object has no attribute 'truck'"]

OrderCreateView_post(user, q) ==
    /\ role(user) = "customer"
    /\ \E delivery_otp \in OTPs :
        LET db == OrderCreateSerializer_db(CurrentTables, q, user, delivery_otp) IN
        /\ Commit(db)
        /\ response' = Resp("OrderCreateView", user, db.outcome)
        /\ UNCHANGED <<matching, inflight, drivers, payments, now, requests, negotiations, original>>

----------------------------------------------------------------------------
(* The clock *)

Tick ==
    /\ now < 3 + MaxTime
    /\ now' = now + 1
    /\ UNCHANGED <<matching, inflight, drivers, payments, requests, quotations, negotiations, original, orders, history, response>>

----------------------------------------------------------------------------
(* Specification of the quotation workflow *)

\* No route search is in progress.
NoMatching == [state |-> "none"]

Init ==
    /\ now = 3
    /\ requests = <<>>
    /\ quotations = <<>>
    /\ negotiations = <<>>
    /\ original = <<>>
    /\ orders = <<>>
    /\ history = <<>>
    /\ drivers = [d \in Drivers |-> TRUE]
    /\ payments = <<>>
    /\ inflight = {}
    /\ matching = NoMatching
    /\ response = NoResponse

NIds(q) == 1..Len(negotiations[q])

\* The quotation workflow stops recording once a quotation has MaxNegotiations
\* records; requests that are refused are not limited.
WithinBound(q, user_role, proposed_amount) ==
    \/ Len(negotiations[q]) < MaxNegotiations
    \/ create_negotiation_outcome(q, user_role, proposed_amount) # OK

\* The services compare the user with the quotation's customer and vendor
\* only; one outsider stands for every other user.
ServiceUsers == {"c1", "v1", "c2"}

Next ==
    \/ \E customer \in {"c1"}, vendor \in {"v1"}, route \in Routes, weight \in {1},
          total_amount \in TotalAmounts, proposed \in Proposals \cup {0},
          validity_hours \in ValidityChoices :
            create_quotation_request_and_quotation(customer, vendor, route, weight,
                                                   total_amount, proposed, validity_hours)
    \/ \E q \in QIds, user_role \in {"customer", "vendor"}, amount \in Proposals :
            WithinBound(q, user_role, amount) /\ create_negotiation(q, user_role, amount)
    \/ \E user \in Users, q \in QIds, amount \in Proposals :
            WithinBound(q, role(user), amount) /\ NegotiationCreateView_post(user, q, amount)
    \/ \E q \in QIds, new_status \in {NEGOTIATING, ACCEPTED, REJECTED, EXPIRED},
          user_role \in {"customer", "vendor"} :
            update_status(q, new_status, user_role)
    \/ expire_quotations
    \/ \E user \in Users, q \in QIds : QuotationRejectView_post(user, q)
    \/ \E user \in Users, q \in QIds : QuotationAcceptView_post(user, q)
    \/ \E user \in ServiceUsers, q \in QIds : create_order_from_quotation(q, user)
    \/ \E user \in ServiceUsers, q \in QIds : \E i \in NIds(q) :
            create_order_from_negotiation(q, i, user)
    \/ \E user \in ServiceUsers, q \in QIds : \E i \in NIds(q) :
            accept_negotiation(q, i, user)
    \/ \E user \in Users, q \in QIds : \E i \in NIds(q) :
            AcceptNegotiationView_post(user, q, i)
    \/ \E user \in Users, q \in QIds : OrderCreateView_post(user, q)
    \/ Tick

Spec == Init /\ [][Next]_vars

TypeOK ==
    /\ now \in 3..(3 + MaxTime)
    /\ Len(negotiations) = Len(quotations)
    /\ \A q \in QIds : quotations[q].status \in QuotationStatus

----------------------------------------------------------------------------
(* orders/api/serializers.py, orders/api/views.py: the order lifecycle *)

OrderIds == 1..Len(orders)

\* OrderStatusUpdateSerializer.STATUS_CHOICES
STATUS_CHOICES == {"confirmed", "driver_assigned", "pickup", "picked_up",
                   "in_transit", "delivered", "completed", "cancelled"}

OrderStatuses == {"created"} \cup STATUS_CHOICES

\* OrderStatusUpdateView._is_valid_status_transition and
\* OrderStatusTrackingService.VALID_TRANSITIONS hold the same table.
valid_transitions(current) ==
    CASE current = "created" -> {"confirmed", "cancelled"}
      [] current = "confirmed" -> {"driver_assigned", "cancelled"}
      [] current = "driver_assigned" -> {"pickup", "cancelled"}
      [] current = "pickup" -> {"picked_up", "cancelled"}
      [] current = "picked_up" -> {"in_transit"}
      [] current = "in_transit" -> {"delivered"}
      [] current = "delivered" -> {"completed"}
      [] OTHER -> {}

_is_valid_status_transition(current, new) == new \in valid_transitions(current)

\* Every driver of the model belongs to vendor v1.
driver_vendor(d) == "v1"

NONE_HAS_NO_TRUCK == "AttributeError: 'NoneType' object has no attribute 'availability_status'"
ORDER_NOT_FOUND == "Order not found"

\* The view saves the order and the history entry and then releases
\* order.truck, which raises when the order has no truck: the response is an
\* error, the writes stay.
OrderStatusUpdateView_post(user, o, new_status, driver_id) ==
    /\ role(user) = "vendor"
    /\ LET op == "OrderStatusUpdateView"
           previous_status == orders[o].status
           updated == [orders[o] EXCEPT
                         !.status = new_status,
                         !.driver = IF new_status = "driver_assigned" /\ driver_id # NoDriver
                                    THEN driver_id ELSE @]
       IN
       IF orders[o].vendor # user
       THEN /\ response' = Resp(op, user, ORDER_NOT_FOUND)
            /\ UNCHANGED <<orders, history>>
       ELSE IF ~_is_valid_status_transition(previous_status, new_status)
       THEN /\ response' = Resp(op, user, "Invalid status transition")
            /\ UNCHANGED <<orders, history>>
       ELSE /\ orders' = [orders EXCEPT ![o] = updated]
            /\ history' = Append(history, StatusEntry(o, previous_status, new_status))
            /\ response' = Resp(op, user,
                                IF new_status \in {"completed", "cancelled"}
                                   /\ orders[o].truck = NoTruck
                                THEN NONE_HAS_NO_TRUCK ELSE OK)
    /\ UNCHANGED <<matching, inflight, now, requests, quotations, negotiations, original, drivers, payments>>

AssignDriverView_post(user, o, driver) ==
    /\ role(user) = "vendor"
    /\ LET op == "AssignDriverView" IN
       IF orders[o].vendor # user \/ orders[o].status # "confirmed"
       THEN /\ response' = Resp(op, user, ORDER_NOT_FOUND)
            /\ UNCHANGED <<orders, history, drivers>>
       ELSE IF driver_vendor(driver) # user \/ ~drivers[driver]
       THEN /\ response' = Resp(op, user, "Driver not found or not available")
            /\ UNCHANGED <<orders, history, drivers>>
       ELSE /\ orders' = [orders EXCEPT ![o].driver = driver,
                                        ![o].status = "driver_assigned"]
            /\ drivers' = [drivers EXCEPT ![driver] = FALSE]
            /\ history' = Append(history, StatusEntry(o, "confirmed", "driver_assigned"))
            /\ response' = Resp(op, user, OK)
    /\ UNCHANGED <<matching, inflight, now, requests, quotations, negotiations, original, payments>>

\* After the save the view releases order.truck before the driver and before
\* the history entry; on an order without truck it raises there.
DeliveryVerificationView_post(user, o, otp) ==
    /\ role(user) = "customer"
    /\ LET op == "DeliveryVerificationView" IN
       IF orders[o].customer # user \/ orders[o].status # "delivered"
       THEN /\ response' = Resp(op, user, ORDER_NOT_FOUND)
            /\ UNCHANGED <<orders, history, drivers>>
       ELSE IF orders[o].delivery_otp # otp
       THEN /\ response' = Resp(op, user, "Invalid OTP")
            /\ UNCHANGED <<orders, history, drivers>>
       ELSE /\ orders' = [orders EXCEPT ![o].is_otp_verified = TRUE,
                                        ![o].status = "completed"]
            /\ IF orders[o].truck = NoTruck
               THEN /\ response' = Resp(op, user, NONE_HAS_NO_TRUCK)
                    /\ UNCHANGED <<history, drivers>>
               ELSE /\ drivers' = IF orders[o].driver # NoDriver
                                  THEN [drivers EXCEPT ![orders[o].driver] = TRUE]
                                  ELSE drivers
                    /\ history' = Append(history, StatusEntry(o, "delivered", "completed"))
                    /\ response' = Resp(op, user, OK)
    /\ UNCHANGED <<matching, inflight, now, requests, quotations, negotiations, original, payments>>

----------------------------------------------------------------------------
(* orders/services.py: OrderStatusTrackingService *)

role_permissions(user_role) ==
    CASE user_role = "customer" -> {"cancelled"}
      [] user_role = "vendor" -> {"confirmed", "driver_assigned", "pickup", "picked_up",
                                  "in_transit", "delivered", "cancelled"}
      [] user_role = "admin" -> OrderStatuses
      [] OTHER -> {}

_validate_user_permissions(order, new_status, user) ==
    IF new_status \notin role_permissions(role(user))
    THEN "User role cannot set status"
    ELSE IF role(user) = "customer" /\ order.customer # user
    THEN "You can only modify your own orders"
    ELSE IF role(user) = "vendor" /\ order.vendor # user
    THEN "You can only modify orders for your trucks"
    ELSE OK

_validate_status_transition(order, new_status, user) ==
    IF new_status \notin valid_transitions(order.status)
    THEN "Invalid status transition"
    ELSE _validate_user_permissions(order, new_status, user)

_handle_status_specific_logic(order, new_status, driver_id) ==
    IF new_status = "driver_assigned" /\ driver_id # NoDriver
    THEN [order EXCEPT !.driver = driver_id]
    ELSE IF new_status = "completed"
    THEN [order EXCEPT !.is_otp_verified = TRUE]
    ELSE order

update_order_status(o, new_status, user, driver_id) ==
    /\ LET op == "update_order_status"
           v == _validate_status_transition(orders[o], new_status, user)
           order == [orders[o] EXCEPT !.status = new_status]
       IN
       IF v # OK
       THEN /\ response' = Resp(op, user, v)
            /\ UNCHANGED <<orders, history>>
       ELSE IF new_status = "driver_assigned" /\ driver_id # NoDriver
               /\ driver_vendor(driver_id) # orders[o].vendor
       THEN /\ response' = Resp(op, user, "Invalid driver ID or driver not owned by vendor")
            /\ UNCHANGED <<orders, history>>
       ELSE /\ orders' = [orders EXCEPT
                            ![o] = _handle_status_specific_logic(order, new_status, driver_id)]
            /\ history' = Append(history, StatusEntry(o, orders[o].status, new_status))
            /\ response' = Resp(op, user, OK)
    /\ UNCHANGED <<matching, inflight, now, requests, quotations, negotiations, original, drivers, payments>>

----------------------------------------------------------------------------
(* payments/api/serializers.py, payments/api/views.py *)

PaymentTypes == {"advance", "full", "balance"}

PaymentIds == 1..Len(payments)

RECURSIVE SumCompleted(_, _)
\* the amounts of the completed payments of order o among payments 1..n
SumCompleted(o, n) ==
    IF n = 0 THEN 0
    ELSE SumCompleted(o, n - 1)
         + (IF payments[n].order = o /\ payments[n].status = "completed"
            THEN payments[n].amount ELSE 0)

PaymentCreateSerializer_validate(user, o, amount, payment_type) ==
    IF orders[o].customer # user
    THEN "You can only create payments for your own orders"
    ELSE IF orders[o].status \notin {"created", "confirmed", "completed"}
    THEN "Order is not in a valid state for payment"
    ELSE IF payment_type = "full" /\ amount # orders[o].total_amount
    THEN "Full payment amount must equal order total amount"
    ELSE IF payment_type = "advance" /\ amount >= orders[o].total_amount
    THEN "Advance payment must be less than total amount"
    ELSE IF SumCompleted(o, Len(payments)) + amount > orders[o].total_amount
    THEN "Payment amount exceeds remaining balance"
    ELSE OK

PaymentCreateView_post(user, o, amount, payment_type) ==
    /\ role(user) = "customer"
    /\ response' = Resp("PaymentCreateView", user,
                        PaymentCreateSerializer_validate(user, o, amount, payment_type))
    /\ IF PaymentCreateSerializer_validate(user, o, amount, payment_type) = OK
       THEN payments' = Append(payments, [order |-> o, amount |-> amount,
                                          payment_type |-> payment_type,
                                          status |-> "pending"])
       ELSE UNCHANGED payments
    /\ UNCHANGED <<matching, inflight, now, requests, quotations, negotiations, original, orders, history, drivers>>

PAYMENT_NOT_FOUND == "Payment not found"

PaymentInitiateView_post(user, p) ==
    /\ role(user) = "customer"
    /\ IF orders[payments[p].order].customer = user /\ payments[p].status = "pending"
       THEN /\ payments' = [payments EXCEPT ![p].status = "initiated"]
            /\ response' = Resp("PaymentInitiateView", user, OK)
       ELSE /\ response' = Resp("PaymentInitiateView", user, PAYMENT_NOT_FOUND)
            /\ UNCHANGED payments
    /\ UNCHANGED <<matching, inflight, now, requests, quotations, negotiations, original, orders, history, drivers>>

\* The gateway webhook; it has no permission class and no user.
PaymentCompleteView_post(p, status) ==
    /\ IF payments[p].status = "initiated"
       THEN /\ payments' = [payments EXCEPT ![p].status = status]
            /\ orders' = IF status = "completed" /\ payments[p].payment_type = "full"
                         THEN [orders EXCEPT ![payments[p].order].status = "confirmed"]
                         ELSE orders
            /\ response' = Resp("PaymentCompleteView", "gateway", OK)
       ELSE /\ response' = Resp("PaymentCompleteView", "gateway", PAYMENT_NOT_FOUND)
            /\ UNCHANGED <<payments, orders>>
    /\ UNCHANGED <<matching, inflight, now, requests, quotations, negotiations, original, history, drivers>>

----------------------------------------------------------------------------
(* Specification of the order lifecycle: one quotation is created and *)
(* accepted, and its order is driven by the vendor, the customer, an admin *)
(* and the payment gateway.                                               *)

PaymentAmounts == {50, 90}
SubmittedOTPs == OTPs \cup {"000000"}

OrderNext ==
    \/ \E proposed \in {90} :
            create_quotation_request_and_quotation("c1", "v1", "r1", 1, 100, proposed, 1)
    \/ \E user \in {"c1", "v1"}, q \in QIds : \E i \in NIds(q) :
            AcceptNegotiationView_post(user, q, i)
    \/ \E user \in Vendors, o \in OrderIds, new_status \in STATUS_CHOICES,
          driver_id \in Drivers \cup {NoDriver} :
            OrderStatusUpdateView_post(user, o, new_status, driver_id)
    \/ \E user \in Vendors, o \in OrderIds, driver \in Drivers :
            AssignDriverView_post(user, o, driver)
    \/ \E user \in Customers, o \in OrderIds, otp \in SubmittedOTPs :
            DeliveryVerificationView_post(user, o, otp)
    \/ \E user \in {"c1", "v1", "a1"}, o \in OrderIds, new_status \in OrderStatuses,
          driver_id \in Drivers \cup {NoDriver} :
            update_order_status(o, new_status, user, driver_id)
    \/ \E user \in Customers, o \in OrderIds, amount \in PaymentAmounts,
          payment_type \in PaymentTypes :
            Len(payments) < MaxPayments
              /\ PaymentCreateView_post(user, o, amount, payment_type)
    \/ \E user \in Customers, p \in PaymentIds : PaymentInitiateView_post(user, p)
    \/ \E p \in PaymentIds, status \in {"completed", "failed"} :
            PaymentCompleteView_post(p, status)

OrderSpec == Init /\ [][OrderNext]_vars

----------------------------------------------------------------------------
(* Specification of the payments of one order: the customer creates and    *)
(* initiates payments and the gateway completes them, while the vendor     *)
(* confirms or cancels the order.                                          *)

PaymentNext ==
    \/ create_quotation_request_and_quotation("c1", "v1", "r1", 1, 100, 90, 1)
    \/ \E q \in QIds : \E i \in NIds(q) : AcceptNegotiationView_post("v1", q, i)
    \/ \E o \in OrderIds, new_status \in {"confirmed", "cancelled"} :
            OrderStatusUpdateView_post("v1", o, new_status, NoDriver)
    \/ \E user \in Customers, o \in OrderIds, amount \in PaymentAmounts,
          payment_type \in PaymentTypes :
            Len(payments) <= MaxPayments
              /\ PaymentCreateView_post(user, o, amount, payment_type)
    \/ \E user \in Customers, p \in PaymentIds : PaymentInitiateView_post(user, p)
    \/ \E p \in PaymentIds, status \in {"completed", "failed"} :
            PaymentCompleteView_post(p, status)

PaymentSpec == Init /\ [][PaymentNext]_vars

----------------------------------------------------------------------------
(* Specification of the negotiation rounds: one quotation, and negotiation *)
(* requests of its customer and its vendor through the service and through *)
(* the view, as many as the code admits.                                   *)

RoundAmounts == {100}

RoundNext ==
    \/ create_quotation_request_and_quotation("c1", "v1", "r1", 1, 100, 0, 1)
    \/ \E q \in QIds, user_role \in {"customer", "vendor"}, amount \in RoundAmounts :
            create_negotiation(q, user_role, amount)
    \/ \E user \in {"c1", "v1"}, q \in QIds, amount \in RoundAmounts :
            NegotiationCreateView_post(user, q, amount)
    \/ Tick

RoundSpec == Init /\ [][RoundNext]_vars

----------------------------------------------------------------------------
(* Specification of the quotations of one request: a customer asks both    *)
(* vendors for the same route, with the same or with another weight, and   *)
(* the quotations are accepted or rejected.                                *)

Weights == {1, 2}

RequestNext ==
    \/ \E vendor \in Vendors, weight \in Weights, proposed \in {0, 90} :
            create_quotation_request_and_quotation("c1", vendor, "r1", weight, 100, proposed, 1)
    \/ \E q \in QIds, new_status \in {ACCEPTED, REJECTED}, user_role \in {"customer", "vendor"} :
            update_status(q, new_status, user_role)
    \/ \E user \in {"c1"} \cup Vendors, q \in QIds : QuotationAcceptView_post(user, q)
    \/ \E user \in {"c1"} \cup Vendors, q \in QIds : QuotationRejectView_post(user, q)
    \/ \E user \in {"c1"}, q \in QIds : \E i \in NIds(q) :
            accept_negotiation(q, i, user)
    \/ \E user \in {"c1"} \cup Vendors, q \in QIds : \E i \in NIds(q) :
            AcceptNegotiationView_post(user, q, i)
    \/ Tick

RequestSpec == Init /\ [][RequestNext]_vars

----------------------------------------------------------------------------
(* Specification of concurrent negotiation requests: two workers serve     *)
(* create_negotiation calls on one quotation, and the steps of the two     *)
(* calls interleave.                                                       *)

ConcurrentNext ==
    \/ create_quotation_request_and_quotation("c1", "v1", "r1", 1, 100, 0, 1)
    \/ \E w \in Workers, q \in QIds, user_role \in {"customer", "vendor"},
          amount \in RoundAmounts :
            create_negotiation_validate(w, q, user_role, amount)
    \/ \E w \in Workers : create_negotiation_insert(w)
    \/ Tick

ConcurrentSpec == Init /\ [][ConcurrentNext]_vars

----------------------------------------------------------------------------
(* trucks/api/views.py: check_route_stops_match *)

\* Stops of a route in the searches of the model
MaxStops == 2

\* Places lie on one meridian; a position is a latitude, counted in steps
\* whose great-circle distance is one unit of max_distance.
Positions == {0, 1, 3}

\* Haversine distance of two places of equal longitude: R times the
\* difference of the latitudes.
calculate_distance(a, b) == IF a >= b THEN a - b ELSE b - a

\* float('inf')
Infinity == 1000

\* origin, destination, then the RouteStops ordered by stop_order; the i-th
\* stop of the route has stop_order i.
all_points(route) ==
    <<[pos |-> route.origin, order |-> 0, type |-> "origin",
       can_pickup |-> TRUE, can_drop |-> TRUE],
      [pos |-> route.destination, order |-> 999, type |-> "destination",
       can_pickup |-> TRUE, can_drop |-> TRUE]>>
    \o [i \in 1..Len(route.stops) |->
          [pos |-> route.stops[i].pos, order |-> i, type |-> "stop",
           can_pickup |-> route.stops[i].can_pickup,
           can_drop |-> route.stops[i].can_drop]]

PickupCapable(point) ==
    point.type = "origin" \/ (point.type = "stop" /\ point.can_pickup)

DropCapable(point) ==
    point.type = "destination" \/ (point.type = "stop" /\ point.can_drop)

RECURSIVE best_pickup(_, _, _, _, _)
\* The first loop from point i on; best is the index of pickup_stop so far,
\* 0 for None.
best_pickup(points, pickup, max_distance, i, best) ==
    IF i > Len(points) THEN best
    ELSE LET distance == calculate_distance(pickup, points[i].pos)
             pickup_distance == IF best = 0 THEN Infinity
                                ELSE calculate_distance(pickup, points[best].pos)
         IN best_pickup(points, pickup, max_distance, i + 1,
                        IF /\ PickupCapable(points[i])
                           /\ distance <= max_distance
                           /\ distance < pickup_distance
                        THEN i ELSE best)

RECURSIVE best_delivery(_, _, _, _, _, _)
\* The second loop from point i on; pickup_stop is the index the first loop
\* chose, best the index of delivery_stop so far, 0 for None.
best_delivery(points, delivery, max_distance, pickup_stop, i, best) ==
    IF i > Len(points) THEN best
    ELSE LET distance == calculate_distance(delivery, points[i].pos)
             delivery_distance == IF best = 0 THEN Infinity
                                  ELSE calculate_distance(delivery, points[best].pos)
         IN best_delivery(points, delivery, max_distance, pickup_stop, i + 1,
                          IF /\ DropCapable(points[i])
                             /\ pickup_stop # 0
                             /\ points[i].order > points[pickup_stop].order
                             /\ distance <= max_distance
                             /\ distance < delivery_distance
                          THEN i ELSE best)

check_route_stops_match(route, pickup, delivery, max_distance) ==
    LET points == all_points(route)
        pickup_stop == best_pickup(points, pickup, max_distance, 1, 0)
        delivery_stop == best_delivery(points, delivery, max_distance, pickup_stop, 1, 0)
        pickup_distance == IF pickup_stop # 0
                           THEN calculate_distance(pickup, points[pickup_stop].pos)
                           ELSE Infinity
        delivery_distance == IF delivery_stop # 0
                             THEN calculate_distance(delivery, points[delivery_stop].pos)
                             ELSE Infinity
    IN [matches |-> pickup_stop # 0 /\ delivery_stop # 0,
        pickup_distance |-> pickup_distance,
        delivery_distance |-> delivery_distance,
        total_distance |-> IF pickup_stop # 0 /\ delivery_stop # 0
                           THEN pickup_distance + delivery_distance
                           ELSE Infinity,
        pickup_stop |-> pickup_stop,
        delivery_stop |-> delivery_stop]

----------------------------------------------------------------------------
(* Specification of the stop matching: a search arrives with a route, a    *)
(* pickup and a delivery location, and check_route_stops_match answers it. *)

RouteStops == [pos : Positions, can_pickup : BOOLEAN, can_drop : BOOLEAN]

RoutesWithStops ==
    [origin : Positions, destination : Positions,
     stops : UNION {[1..n -> RouteStops] : n \in 0..MaxStops}]

MatchInit ==
    /\ now = 3
    /\ requests = <<>>
    /\ quotations = <<>>
    /\ negotiations = <<>>
    /\ original = <<>>
    /\ orders = <<>>
    /\ history = <<>>
    /\ drivers = [d \in Drivers |-> TRUE]
    /\ payments = <<>>
    /\ inflight = {}
    /\ matching \in [state : {"asked"}, route : RoutesWithStops, pickup : Positions,
                      delivery : Positions, max_distance : {1}]
    /\ response = NoResponse

stop_match ==
    /\ matching.state = "asked"
    /\ matching' = [state |-> "answered", route |-> matching.route,
                    pickup |-> matching.pickup, delivery |-> matching.delivery,
                    max_distance |-> matching.max_distance,
                    result |-> check_route_stops_match(matching.route, matching.pickup,
                                                       matching.delivery,
                                                       matching.max_distance)]
    /\ UNCHANGED <<now, requests, quotations, negotiations, original, orders, history,
                   drivers, payments, inflight, response>>

MatchNext == stop_match

MatchSpec == MatchInit /\ [][MatchNext]_vars

----------------------------------------------------------------------------
(* Properties of the quotation workflow *)

Owner(q, user) == customer_of(quotations, q) = user \/ quotations[q].vendor = user

\* C1: for every quotation, no two consecutive negotiation records (ordered by
\* creation) have the same initiated_by.
C1_Alternation ==
    \A q \in QIds : \A i \in 1..(Len(negotiations[q]) - 1) :
        negotiations[q][i].initiated_by # negotiations[q][i + 1].initiated_by

C3_Floor ==
    \A q \in QIds : \A i \in 1..Len(negotiations[q]) :
        negotiations[q][i].proposed_amount * 2 >= original[q]

\* A proposal inside the band of the latest offer was rejected for being below
\* half of the original amount.
C3_Witness ==
    /\ response.outcome = BELOW_FLOOR
    /\ \E q \in QIds :
        /\ Len(negotiations[q]) >= 1
        /\ negotiations[q][1].proposed_amount < original[q]

\* C4: a quotation whose status is accepted, rejected or expired keeps that
\* status in every step.
C4_FinalStatesStay ==
    [][\A q \in QIds :
          quotations[q].status \in FINAL_STATUSES
            => quotations'[q].status = quotations[q].status]_vars

\* C5: a call of create_order_from_negotiation that raises adds no Order and
\* no OrderStatusHistory row and leaves every stored quotation, its
\* total_amount and status included, as it was before the call.
C5_AllOrNothing ==
    [][(/\ response'.op = "create_order_from_negotiation"
        /\ response'.outcome # OK)
       => /\ orders' = orders
          /\ history' = history
          /\ quotations' = quotations]_vars

\* create_order_from_negotiation failed on an elapsed validity, after it had
\* written total_amount and status, and the quotation is not accepted.
C5_Witness ==
    /\ response.op = "create_order_from_negotiation"
    /\ response.outcome = HAS_EXPIRED
    /\ \E q \in QIds : /\ quotations[q].status = NEGOTIATING
                       /\ quotations[q].total_amount = original[q]
                       /\ \E i \in 1..Len(negotiations[q]) :
                            negotiations[q][i].proposed_amount # original[q]

OrdersOf(q) == {o \in DOMAIN orders : orders[o].quotation = q}

\* C7 as stated: every quotation has at most one Order, and every conversion
\* attempt on a quotation that has an order fails with "Order already exists
\* for this quotation" and creates nothing.
C7_SecondAttemptMessage ==
    /\ \A q \in QIds : Cardinality(OrdersOf(q)) <= 1
    /\ \A q \in QIds, user \in Users, delivery_otp \in OTPs :
        has_order(orders, q) =>
          /\ create_order_from_quotation_db(CurrentTables, q, user, delivery_otp)
               = [CurrentTables EXCEPT !.outcome = ORDER_EXISTS]
          /\ OrderCreateSerializer_db(CurrentTables, q, user, delivery_otp)
               = [CurrentTables EXCEPT !.outcome = ORDER_EXISTS]
          /\ \A i \in 1..Len(negotiations[q]) :
               accept_negotiation_db(CurrentTables, q, i, user, delivery_otp)
                 = [CurrentTables EXCEPT !.outcome = ORDER_EXISTS]

\* C7: every quotation has at most one Order; every conversion attempt on a
\* quotation that has an order fails and changes nothing; it fails with "Order
\* already exists for this quotation" when the caller passes the checks that
\* come first: accept_negotiation called by the quotation's customer or
\* vendor, create_order_from_quotation called by one of them on a quotation
\* that is accepted or negotiating, OrderCreateSerializer called by the
\* customer on an accepted quotation.
C7_OneOrderPerQuotation ==
    /\ \A q \in QIds : Cardinality(OrdersOf(q)) <= 1
    /\ \A q \in QIds, user \in Users, delivery_otp \in OTPs :
        has_order(orders, q) =>
          LET fromQuotation == create_order_from_quotation_db(CurrentTables, q, user, delivery_otp)
              fromSerializer == OrderCreateSerializer_db(CurrentTables, q, user, delivery_otp)
              unchanged(db) == /\ db.outcome # OK
                               /\ [db EXCEPT !.outcome = OK] = CurrentTables
          IN
          /\ unchanged(fromQuotation)
          /\ Owner(q, user) /\ quotations[q].status \in {ACCEPTED, NEGOTIATING}
               => fromQuotation.outcome = ORDER_EXISTS
          /\ unchanged(fromSerializer)
          /\ customer_of(quotations, q) = user /\ quotations[q].status = ACCEPTED
               => fromSerializer.outcome = ORDER_EXISTS
          /\ \A i \in 1..Len(negotiations[q]) :
               LET accepted == accept_negotiation_db(CurrentTables, q, i, user, delivery_otp) IN
               /\ unchanged(accepted)
               /\ Owner(q, user) => accepted.outcome = ORDER_EXISTS

\* A second accept_negotiation on a quotation that has its order was refused.
C7_Witness ==
    /\ response.op = "accept_negotiation"
    /\ response.outcome = ORDER_EXISTS
    /\ \E q \in QIds : Cardinality(OrdersOf(q)) = 1

\* C8: a quotation that has an Order has status accepted.
C8_OrderOnlyIfAccepted ==
    \A o \in DOMAIN orders : quotations[orders[o].quotation].status = ACCEPTED

\* C9: a step that moves a quotation to accepted is the action of a user
\* with role customer.
C9_OnlyCustomersAccept ==
    [][\A q \in QIds :
          quotations[q].status # ACCEPTED /\ quotations'[q].status = ACCEPTED
            => response'.role = "customer"]_vars

\* C10 as stated: whenever the role of the accepting user equals the
\* negotiation's initiated_by, AcceptNegotiationView.post answers "You cannot
\* accept your own negotiation offer" and changes nothing.
C10_OwnOfferMessage ==
    \A q \in QIds, user \in Users, delivery_otp \in OTPs :
        \A i \in 1..Len(negotiations[q]) :
            role(user) = negotiations[q][i].initiated_by
              => AcceptNegotiationView_db(CurrentTables, q, i, user, delivery_otp)
                   = [CurrentTables EXCEPT !.outcome = CANNOT_ACCEPT_OWN_NEGOTIATION]

\* C10: whenever the role of the accepting user equals the negotiation's
\* initiated_by, AcceptNegotiationView.post creates no order and leaves every
\* quotation unchanged; it answers "You cannot accept your own negotiation
\* offer" to the quotation's own customer or vendor, and the ownership error
\* to every other user.
C10_NoSelfAcceptance ==
    \A q \in QIds, user \in Users, delivery_otp \in OTPs :
        \A i \in 1..Len(negotiations[q]) :
            role(user) = negotiations[q][i].initiated_by
              => LET db == AcceptNegotiationView_db(CurrentTables, q, i, user, delivery_otp) IN
                 /\ [db EXCEPT !.outcome = OK] = CurrentTables
                 /\ Owner(q, user) => db.outcome = CANNOT_ACCEPT_OWN_NEGOTIATION
                 /\ ~Owner(q, user) =>
                      db.outcome \in {"You can only accept negotiations for your own quotation requests",
                                      "You can only accept negotiations for your own quotations"}

\* The view refused a user's acceptance of an offer of the user's own side
\* while the quotation was open for acceptance.
C10_Witness ==
    /\ response.op = "AcceptNegotiationView"
    /\ response.outcome = CANNOT_ACCEPT_OWN_NEGOTIATION
    /\ \E q \in QIds : /\ quotations[q].status = NEGOTIATING
                       /\ ~has_order(orders, q)

\* C11: a quotation never has more than 10 negotiation records, the initial
\* negotiation included, whether they are requested through
\* NegotiationCreateView or through create_negotiation.
C11_RoundCap ==
    \A q \in QIds : Len(negotiations[q]) <= 10

ValidityElapsed(q) == now > quotations[q].created_at + quotations[q].validity_hours

\* C13: in every step, a quotation whose created_at + validity_hours has
\* passed gets no further negotiation record and no order, whatever its status.
C13_ExpiryGate ==
    [][\A q \in QIds :
          ValidityElapsed(q)
            => /\ negotiations'[q] = negotiations[q]
               /\ {o \in DOMAIN orders' : orders'[o].quotation = q} = OrdersOf(q)]_vars

\* A negotiation request through the view was refused for the elapsed
\* validity on a quotation that is still negotiating and has no order.
C13_Witness ==
    /\ response.op = "NegotiationCreateView"
    /\ response.outcome = QUOTATION_EXPIRED
    /\ \E q \in QIds : /\ quotations[q].status = NEGOTIATING
                       /\ ValidityElapsed(q)
                       /\ ~has_order(orders, q)

\* C14: whenever accept_negotiation succeeds on negotiation n of a quotation,
\* it leaves the quotation accepted with total_amount = n.proposed_amount and
\* creates the quotation's order with the same total_amount.
C14_FinalAmount ==
    \A q \in QIds, user \in Users, delivery_otp \in OTPs :
        \A i \in 1..Len(negotiations[q]) :
            LET db == accept_negotiation_db(CurrentTables, q, i, user, delivery_otp)
                amount == negotiations[q][i].proposed_amount
            IN db.outcome = OK
                 => /\ db.quotations[q].status = ACCEPTED
                    /\ db.quotations[q].total_amount = amount
                    /\ Len(db.orders) = Len(orders) + 1
                    /\ Last(db.orders).quotation = q
                    /\ Last(db.orders).total_amount = amount

\* accept_negotiation succeeded on a negotiation below the quoted amount: the
\* quotation and its order carry the negotiated amount.
C14_Witness ==
    /\ response.op = "accept_negotiation"
    /\ response.outcome = OK
    /\ \E q \in QIds : /\ quotations[q].status = ACCEPTED
                       /\ quotations[q].total_amount < original[q]
                       /\ \E o \in OrdersOf(q) :
                            orders[o].total_amount = quotations[q].total_amount

QuotationsOf(r) == {q \in QIds : quotations[q].quotation_request = r}

\* C15: every quotation request has at most one quotation in status accepted.
C15_OneWinner ==
    \A r \in DOMAIN requests :
        Cardinality({q \in QuotationsOf(r) : quotations[q].status = ACCEPTED}) <= 1

SameKey(r1, r2) ==
    /\ requests[r1].customer = requests[r2].customer
    /\ requests[r1].route = requests[r2].route

\* C17: no two quotation requests of a customer have the same origin,
\* destination, pickup date and drop date, and
\* create_quotation_request_and_quotation never fails on the uniqueness of
\* the request: it reuses the stored request whatever weight the call carries.
C17_RequestReuse ==
    /\ \A r1 \in DOMAIN requests, r2 \in DOMAIN requests : SameKey(r1, r2) => r1 = r2
    /\ ~(/\ response.op = "create_quotation"
          /\ response.outcome = "IntegrityError: quotation_request")

\* The transitions the claim lists, with acceptance for customers only.
C18_Listed(from_status, to_status, user_role) ==
    /\ \/ from_status \in {"pending", "sent"}
          /\ to_status \in {"negotiating", "accepted", "rejected", "expired"}
       \/ from_status = "negotiating"
          /\ to_status \in {"accepted", "rejected", "expired"}
    /\ to_status = "accepted" => user_role = "customer"

C20_AlternationUnderInterleaving ==
    \A q \in QIds :
        /\ Len(negotiations[q]) <= 10
        /\ \A i \in 1..(Len(negotiations[q]) - 1) :
             negotiations[q][i].initiated_by # negotiations[q][i + 1].initiated_by

----------------------------------------------------------------------------
(* Properties of the order lifecycle *)

\* C6: an order whose status is completed has is_otp_verified = true, because
\* only a delivery verification with the order's delivery_otp completes it.
C6_CompletedImpliesVerified ==
    \A o \in OrderIds : orders[o].status = "completed" => orders[o].is_otp_verified

\* C12: in every step, an order whose status changes moves along
\* VALID_TRANSITIONS, whichever operation changes it; completed and cancelled
\* orders keep their status.
C12_Lifecycle ==
    [][\A o \in OrderIds :
          orders'[o].status # orders[o].status
            => orders'[o].status \in valid_transitions(orders[o].status)]_vars

\* C16: for every order, the amounts of its completed payments sum to at most
\* the order's total_amount.
C16_NoOverPayment ==
    \A o \in OrderIds : SumCompleted(o, Len(payments)) <= orders[o].total_amount

\* C19: a driver is unavailable only while assigned to an order that is not
\* completed and not cancelled; the driver of an order that reached a final
\* status is available again.
C19_DriverRelease ==
    \A d \in Drivers :
        ~drivers[d] => \E o \in OrderIds : /\ orders[o].driver = d
                                           /\ orders[o].status \notin {"completed", "cancelled"}

----------------------------------------------------------------------------
(* Properties of the stop matching *)

\* The route of the search has a pickup-capable point within max_distance of
\* the pickup location and a drop-capable point of strictly larger order
\* within max_distance of the delivery location.
CanServe(m) ==
    LET points == all_points(m.route) IN
    \E p \in 1..Len(points), d \in 1..Len(points) :
        /\ PickupCapable(points[p])
        /\ calculate_distance(m.pickup, points[p].pos) <= m.max_distance
        /\ DropCapable(points[d])
        /\ points[d].order > points[p].order
        /\ calculate_distance(m.delivery, points[d].pos) <= m.max_distance

\* C21: check_route_stops_match answers matches = true whenever the route can
\* serve the search, and whenever it answers true the delivery point it chose
\* has a larger order than the pickup point it chose.
C21_MatchComplete ==
    matching.state = "answered"
      => LET points == all_points(matching.route) IN
         /\ CanServe(matching) => matching.result.matches
         /\ matching.result.matches
              => points[matching.result.delivery_stop].order
                   > points[matching.result.pickup_stop].order

====
